---- MODULE Spec2Model ----
(***************************************************************************)
(* Lock-state engine of the wallet client (securitySlice), the secure      *)
(* store it reads and writes, the credential vault (saveWallet, getWallet, *)
(* deleteWallet) and the flows of the wallet slice that use it.            *)
(*                                                                         *)
(* Every createAsyncThunk is a small process: dispatching it runs the      *)
(* pending reducer, each awaited secure-store call is one step that may    *)
(* interleave with the steps of other thunks in flight, and the fulfilled  *)
(* or rejected reducer is the last step.  Date.now() is the variable now.  *)
(***************************************************************************)
EXTENDS Integers, Sequences, FiniteSets, TLC

\* ---------------------------------------------------------------- bounds
MaxMinute == 6
MaxRaceDispatch == 3
MaxTraceDispatch == 2
MaxToasts == 5

\* ------------------------------------------------------- program constants
DEFAULT_AUTO_LOCK_MINUTES == 5
MsPerMinute == 60 * 1000

\* durations handed to updateAutoLockDuration (two of AUTO_LOCK_OPTIONS)
AutoLockChoices == {1, 5}
\* passwords handed to setSecurityPassword / unlockWalletWithPassword
Passwords == {<<"a">>, <<"b">>}

\* wall-clock readings: the run starts one minute after the epoch, and the
\* clock is observed 1 ms before the first minute has elapsed, when an
\* auto-lock choice has elapsed, and MaxMinute minutes after the start
Epoch == MsPerMinute
Times ==
    {Epoch + d : d \in {0, MsPerMinute - 1, MaxMinute * MsPerMinute}
                       \cup {k * MsPerMinute : k \in AutoLockChoices}}

\* ------------------------------------------------------------ JS values
\* a nullable value is <<>> (null) or <<v>>
None == <<>>
Some(v) == <<v>>
IsSome(o) == o # <<>>
\* JS truthiness of a nullable number / of a nullable string
TruthyNum(o) == IsSome(o) /\ o[1] # 0
TruthyStr(o) == IsSome(o) /\ o[1] # <<>>
NullStr == "null"

\* decimal strings, as kept in the secure store
Digits == <<"0", "1", "2", "3", "4", "5", "6", "7", "8", "9">>
DigitVal(c) == (CHOOSE i \in 1..10 : Digits[i] = c) - 1

RECURSIVE ToDecimal(_)
ToDecimal(n) ==
    IF n < 10 THEN <<Digits[n + 1]>>
    ELSE Append(ToDecimal(n \div 10), Digits[(n % 10) + 1])

RECURSIVE ParseDecimal(_)
ParseDecimal(s) ==
    IF Len(s) = 1 THEN DigitVal(s[1])
    ELSE 10 * ParseDecimal(SubSeq(s, 1, Len(s) - 1)) + DigitVal(s[Len(s)])

\* Crypto.digestStringAsync(SHA256, password): one-way and injective on the
\* passwords of the model; the digest of any string is a non-empty string
Digest(password) == <<"sha256">> \o password

\* ---------------------------------------------------------- secure store
SecurityKeys == {"passwordHash", "autoLockMinutes", "lastUnlockedAt"}
ADDRESS_KEY == "wallet_address"
SEED_KEY == "wallet_seed"
PUBLIC_KEY_KEY == "wallet_public_key"
MNEMONIC_KEY == "wallet_mnemonic"
PRIVATE_KEY_KEY == "wallet_private_key"
\* the keys of deleteWallet, in the order it deletes them
DeleteOrder ==
    <<ADDRESS_KEY, SEED_KEY, PUBLIC_KEY_KEY, MNEMONIC_KEY, PRIVATE_KEY_KEY>>
VaultKeys == {DeleteOrder[i] : i \in 1..Len(DeleteOrder)}
StoreKeys == SecurityKeys \cup VaultKeys

EmptyStore == [k \in StoreKeys |-> None]
\* a watch-only wallet: the address alone
StoreWithWallet == [EmptyStore EXCEPT ![ADDRESS_KEY] = Some(<<"addr">>)]

ReadFailMsg == "Failed to read security data"
WriteFailMsg == "Failed to save security data"

getWalletPasswordHash(st) == st["passwordHash"]
getAutoLockMinutes(st) ==
    IF IsSome(st["autoLockMinutes"])
    THEN Some(ParseDecimal(st["autoLockMinutes"][1])) ELSE None
getLastUnlockedTimestamp(st) ==
    IF IsSome(st["lastUnlockedAt"])
    THEN Some(ParseDecimal(st["lastUnlockedAt"][1])) ELSE None
setWalletPasswordHash(st, hash) == [st EXCEPT !["passwordHash"] = Some(hash)]
setAutoLockMinutes(st, minutes) ==
    [st EXCEPT !["autoLockMinutes"] = Some(ToDecimal(minutes))]
setLastUnlockedTimestamp(st, t) ==
    [st EXCEPT !["lastUnlockedAt"] = Some(ToDecimal(t))]
deleteItemAsync(st, key) == [st EXCEPT ![key] = None]
setItemAsync(st, key, value) == [st EXCEPT ![key] = Some(value)]
getItemAsync(st, key) == st[key]

\* ---------------------------------------------------- credential vault
\* a WalletData: each field is null (absent, undefined) or a string
WalletFields == <<"address", "seed", "publicKey", "mnemonic", "privateKey">>
\* the store key of a field; saveWallet writes, getWallet reads and
\* deleteWallet deletes the fields in the order of WalletFields
KeyOf(field) ==
    CASE field = "address" -> ADDRESS_KEY
      [] field = "seed" -> SEED_KEY
      [] field = "publicKey" -> PUBLIC_KEY_KEY
      [] field = "mnemonic" -> MNEMONIC_KEY
      [] field = "privateKey" -> PRIVATE_KEY_KEY

NoWalletData ==
    [address |-> None, seed |-> None, publicKey |-> None,
     mnemonic |-> None, privateKey |-> None]

SaveFailMsg == "Failed to save wallet data"

\* saveWallet: index of the first field from i on that passes its
\* if (walletData.field) guard, or Len(WalletFields) + 1 when none is left
RECURSIVE NextSaved(_, _)
NextSaved(walletData, i) ==
    IF i > Len(WalletFields) THEN i
    ELSE IF TruthyStr(walletData[WalletFields[i]]) THEN i
    ELSE NextSaved(walletData, i + 1)

\* getWalletAddress, getWalletSeed, ...: a read that throws gives null
getWalletField(st, field, ok) ==
    IF ok THEN getItemAsync(st, KeyOf(field)) ELSE None

\* variant: the private key is left out of the record
withField_skipsPrivateKey(walletData, field, value) ==
    IF field = "privateKey" THEN walletData
    ELSE [walletData EXCEPT ![field] = IF TruthyStr(value) THEN value ELSE None]

\* getWallet: the record under construction after reading a field;
\* value || undefined drops an empty string
withField(walletData, field, value) ==
    [walletData EXCEPT ![field] = IF TruthyStr(value) THEN value ELSE None]

\* hasWallet, on what its getWalletAddress returned
hasWallet(address) == address # None

\* ------------------------------------------------------- security slice
initialState ==
    [passwordSet |-> FALSE, locked |-> FALSE,
     autoLockMinutes |-> DEFAULT_AUTO_LOCK_MINUTES,
     lastUnlockedAt |-> None, initializing |-> FALSE, error |-> NullStr]

\* variant: the boundary itself does not lock
isLocked_strict(passwordSet, lastUnlockedAt, autoLockMinutes, dateNow) ==
    IF ~passwordSet THEN FALSE
    ELSE IF ~TruthyNum(lastUnlockedAt) THEN TRUE
    ELSE (dateNow - lastUnlockedAt[1]) > autoLockMinutes * MsPerMinute

\* dateNow is the value of Date.now() when the function runs
isLocked(passwordSet, lastUnlockedAt, autoLockMinutes, dateNow) ==
    IF ~passwordSet THEN FALSE
    ELSE IF ~TruthyNum(lastUnlockedAt) THEN TRUE
    ELSE (dateNow - lastUnlockedAt[1]) >= autoLockMinutes * MsPerMinute

\* variant: the stored duration is ignored, the default always used
LockPayload_ignoresStored(passwordHash, storedAutoLock, lastUnlocked, dateNow) ==
    LET passwordSet == TruthyStr(passwordHash)
    IN  [passwordSet |-> passwordSet,
         autoLockMinutes |-> DEFAULT_AUTO_LOCK_MINUTES,
         lastUnlockedAt |-> lastUnlocked,
         locked |-> isLocked(passwordSet, lastUnlocked,
                             DEFAULT_AUTO_LOCK_MINUTES, dateNow)]

\* payload creator of initializeSecurity and of refreshLockState, after the
\* three reads passwordHash, storedAutoLock, lastUnlocked have resolved
LockPayload(passwordHash, storedAutoLock, lastUnlocked, dateNow) ==
    LET passwordSet == TruthyStr(passwordHash)
        autoLockMinutes == IF IsSome(storedAutoLock) THEN storedAutoLock[1]
                           ELSE DEFAULT_AUTO_LOCK_MINUTES
    IN  [passwordSet |-> passwordSet,
         autoLockMinutes |-> autoLockMinutes,
         lastUnlockedAt |-> lastUnlocked,
         locked |-> isLocked(passwordSet, lastUnlocked, autoLockMinutes, dateNow)]

OrNull(o) == IF TruthyNum(o) THEN o ELSE None

\* variant: locks without looking at passwordSet
forceLock_unguarded(state) == [state EXCEPT !.locked = TRUE]

\* variant: also forgets the last unlock
forceLock_resetsTimer(state) ==
    IF state.passwordSet
    THEN [state EXCEPT !.locked = TRUE, !.lastUnlockedAt = None]
    ELSE state

forceLock(state) ==
    IF state.passwordSet THEN [state EXCEPT !.locked = TRUE] ELSE state

clearSecurityState(state) ==
    [state EXCEPT !.passwordSet = FALSE, !.locked = FALSE,
                  !.autoLockMinutes = DEFAULT_AUTO_LOCK_MINUTES,
                  !.lastUnlockedAt = None, !.error = NullStr]

initializePending(state) ==
    [state EXCEPT !.initializing = TRUE, !.error = NullStr]

initializeFulfilled(state, payload) ==
    [state EXCEPT !.initializing = FALSE,
                  !.passwordSet = payload.passwordSet,
                  !.autoLockMinutes = payload.autoLockMinutes,
                  !.lastUnlockedAt = OrNull(payload.lastUnlockedAt),
                  !.locked = payload.locked]

\* variant: a rejected initialize leaves the initializing flag up
initializeRejected_staysPending(state, message) ==
    [state EXCEPT !.error = message]

initializeRejected(state, message) ==
    [state EXCEPT !.initializing = FALSE, !.error = message]

\* variant: a refresh keeps the duration that is in memory
refreshFulfilled_keepsMinutes(state, payload) ==
    [state EXCEPT !.passwordSet = payload.passwordSet,
                  !.lastUnlockedAt = OrNull(payload.lastUnlockedAt),
                  !.locked = payload.locked]

refreshFulfilled(state, payload) ==
    [state EXCEPT !.passwordSet = payload.passwordSet,
                  !.autoLockMinutes = payload.autoLockMinutes,
                  !.lastUnlockedAt = OrNull(payload.lastUnlockedAt),
                  !.locked = payload.locked]

setPasswordPending(state) == [state EXCEPT !.error = NullStr]

\* variant: the locked flag is left as it was
setPasswordFulfilled_keepsLock(state, lastUnlockedAt) ==
    [state EXCEPT !.passwordSet = TRUE,
                  !.lastUnlockedAt = Some(lastUnlockedAt)]

setPasswordFulfilled(state, lastUnlockedAt) ==
    [state EXCEPT !.passwordSet = TRUE, !.locked = FALSE,
                  !.lastUnlockedAt = Some(lastUnlockedAt)]

\* variant: a rejected setSecurityPassword marks the password as set
setPasswordRejected_marksSet(state, message) ==
    [state EXCEPT !.passwordSet = TRUE, !.error = message]

setPasswordRejected(state, message) == [state EXCEPT !.error = message]

unlockPending(state) == [state EXCEPT !.error = NullStr]

unlockFulfilled(state, lastUnlockedAt) ==
    [state EXCEPT !.locked = FALSE, !.lastUnlockedAt = Some(lastUnlockedAt)]

\* variant: a rejected unlock clears the lock like a fulfilled one
unlockRejected_unlocks(state, message) ==
    [state EXCEPT !.locked = FALSE, !.error = message]

unlockRejected(state, message) == [state EXCEPT !.error = message]

\* variant: the new duration is kept but locked is not recomputed
updateAutoLockFulfilled_noRecompute(state, minutes, dateNow) ==
    [state EXCEPT !.autoLockMinutes = minutes]

updateAutoLockFulfilled(state, minutes, dateNow) ==
    [state EXCEPT !.autoLockMinutes = minutes,
                  !.locked = isLocked(state.passwordSet, state.lastUnlockedAt,
                                      minutes, dateNow)]

updateAutoLockRejected(state, message) == [state EXCEPT !.error = message]

securityDeleteFulfilled(state) ==
    [state EXCEPT !.passwordSet = FALSE, !.locked = FALSE,
                  !.autoLockMinutes = DEFAULT_AUTO_LOCK_MINUTES,
                  !.lastUnlockedAt = None]

NoPasswordMsg == "No password set. Please create one first."
IncorrectPasswordMsg == "Incorrect password. Please try again."

\* variant: the password itself, not its digest, is compared
checkPassword_rawCompare(password, storedHash) ==
    IF ~TruthyStr(storedHash) THEN NoPasswordMsg
    ELSE IF password # storedHash[1] THEN IncorrectPasswordMsg
    ELSE NullStr

\* variant: a missing hash is treated as a mismatch
checkPassword_noGuard(password, storedHash) ==
    IF ~TruthyStr(storedHash) \/ Digest(password) # storedHash[1]
    THEN IncorrectPasswordMsg
    ELSE NullStr

\* the two checks of unlockWalletWithPassword on the hash it read: the
\* message it rejects with, or NullStr when the digests match
checkPassword(password, storedHash) ==
    IF ~TruthyStr(storedHash) THEN NoPasswordMsg
    ELSE IF Digest(password) # storedHash[1] THEN IncorrectPasswordMsg
    ELSE NullStr


\* --------------------------------------------------------- wallet slice
walletInitialState ==
    [walletData |-> None, balance |-> 0, tokens |-> <<>>,
     loading |-> FALSE, error |-> NullStr, refreshing |-> FALSE]

DeleteFailMsg == "Failed to delete wallet data"

walletDeletePending(state) ==
    [state EXCEPT !.loading = TRUE, !.error = NullStr]

walletDeleteFulfilled(state) ==
    [state EXCEPT !.loading = FALSE, !.walletData = None,
                  !.balance = 0, !.tokens = <<>>]

walletDeleteRejected(state, message) ==
    [state EXCEPT !.loading = FALSE, !.error = message]

\* pending reducer of loadWalletFromStorage, createWallet and the imports
walletPending(state) == [state EXCEPT !.loading = TRUE, !.error = NullStr]

\* payload: null or <<WalletData>>
loadFulfilled(state, payload) ==
    [state EXCEPT !.loading = FALSE, !.walletData = payload]

createFulfilled(state, data) ==
    [state EXCEPT !.loading = FALSE,
                  !.walletData = Some([NoWalletData EXCEPT
                       !.address = data.address, !.mnemonic = data.mnemonic,
                       !.seed = data.seed, !.publicKey = data.publicKey])]

\* importWalletFromSeed.fulfilled and importWalletFromMnemonic.fulfilled
importFulfilled(state, data) ==
    [state EXCEPT !.loading = FALSE,
                  !.walletData = Some([NoWalletData EXCEPT
                       !.address = data.address,
                       !.publicKey = data.publicKey])]

\* rejected reducer of createWallet and of the imports
walletRejected(state, message) ==
    [state EXCEPT !.loading = FALSE, !.error = message]

fetchBalancePending(state) ==
    [state EXCEPT !.loading = IF ~state.refreshing THEN TRUE ELSE @,
                  !.error = NullStr]

fetchBalanceFulfilled(state, payload) ==
    [state EXCEPT !.loading = FALSE, !.refreshing = FALSE,
                  !.balance = payload.balance, !.tokens = payload.tokens]

setRefreshing(state, payload) == [state EXCEPT !.refreshing = payload]

clearWallet(state) ==
    [state EXCEPT !.walletData = None, !.balance = 0, !.tokens = <<>>,
                  !.error = NullStr]

\* ------------------------------------------------------------ remote API
\* an axios call resolves with a body, or throws with or without a
\* response of the server
ApiOutcomes == {"ok", "unsuccessful", "networkError", "httpError"}
ServerMsg == "server message"

\* error.response?.data?.message || fallback, for what the try block threw
RejectMsg(outcome, fallback) ==
    IF outcome = "httpError" THEN ServerMsg ELSE fallback

CreateFailMsg == "Failed to create wallet"
ImportFailMsg == "Failed to import wallet"

\* response.data of createWallet
CreatedWallets ==
    {[NoWalletData EXCEPT !.address = Some(<<"addr">>),
                          !.publicKey = Some(<<"pub">>),
                          !.mnemonic = Some(<<"mnemonic">>),
                          !.seed = Some(<<"seed">>)]}

\* response.data of the imports: the public key may come back empty
ImportedWallets ==
    {[NoWalletData EXCEPT !.address = Some(<<"addr">>), !.publicKey = pk] :
        pk \in {Some(<<"pub">>), Some(<<>>)}}

\* what the user types into the import screen
SeedInput == <<"seed">>
MnemonicInput == <<"mnemonic">>
PrivateKeyInput == <<"private">>

\* the WalletData each flow hands to saveWallet
createRecord(data) ==
    [NoWalletData EXCEPT !.address = data.address, !.mnemonic = data.mnemonic,
                         !.seed = data.seed, !.publicKey = data.publicKey]
importRecord(data, field, input) ==
    [NoWalletData EXCEPT !.address = data.address,
                         !.publicKey = data.publicKey,
                         ![field] = Some(input)]

\* response.data of getAccountBalance: tokens may be missing
Balances ==
    {[totalBalance |-> 7, tokens |-> Some(<<"token">>)],
     [totalBalance |-> 3, tokens |-> None]}

\* payload creator of fetchAccountBalance: the catch block returns empty
\* data for everything the try block throws
balancePayload(outcome, data) ==
    IF outcome = "ok"
    THEN [balance |-> data.totalBalance,
          tokens |-> IF IsSome(data.tokens) THEN data.tokens[1] ELSE <<>>]
    ELSE [balance |-> 0, tokens |-> <<>>]

\* ------------------------------------------------------------------ state
VARIABLES
    now,        \* Date.now()
    store,      \* the secure key-value store: key -> null or a string
    security,   \* state.security of the redux store
    wallet,     \* state.wallet of the redux store
    thunks,     \* the async thunks in flight, by slot
    pwGhost,    \* history: password whose digest was stored last, and
                \* whether that setSecurityPassword has been fulfilled
    last,       \* history: the step taken last
    toasts      \* the toast manager: currentToast of the hook, the
                \* module-level toastQueue, the setTimeout callbacks
                \* pending, and (history) the toasts mounted so far

vars == <<now, store, security, wallet, thunks, pwGhost, last, toasts>>

\* thunk slots; Spec runs one thunk at a time
AllSlots == {1, 2}
Slots == {1}

\* kind: which thunk; pc: the await it is suspended at; arg: its argument;
\* got: what its reads returned; t: the Date.now() it took; i: index of the
\* next key of deleteWallet; err: message of the error thrown, if any;
\* rt (history): dispatched and run while pwGhost named its argument;
\* failed (history): a call awaited by the thunk has thrown
Idle ==
    [kind |-> "idle", pc |-> "", arg |-> None, got |-> <<>>, t |-> None,
     i |-> 0, err |-> NullStr, rt |-> FALSE, failed |-> FALSE]

Started(kind, pc, arg) == [Idle EXCEPT !.kind = kind, !.pc = pc, !.arg = arg]

\* dispatching takes the lowest idle slot of S
FreeSlot(S) == CHOOSE s \in S :
                  thunks[s] = Idle /\ \A x \in S : thunks[x] = Idle => s <= x

\* op: the step; rt: it completed a round-trip unlock; lockedBefore: the
\* locked flag before the step; n: the thunks dispatched so far, where the
\* specification counts them; failed: a call awaited by the flow that took
\* the step had thrown
\* tracing, hist (history): where the specification records them, the
\* fulfilled actions reduced so far, each with the argument and timestamp of
\* its thunk and whether another thunk was in flight, and the manual locks
TracedOps ==
    {"initialize.fulfilled", "refresh.fulfilled", "unlock.fulfilled",
     "updateAutoLock.fulfilled"}

Step(op, s) ==
    [op |-> op, rt |-> thunks[s].rt, lockedBefore |-> security.locked,
     n |-> last.n, failed |-> thunks[s].failed, tracing |-> last.tracing,
     hist |-> IF last.tracing /\ op \in TracedOps
              THEN Append(last.hist,
                          [op |-> op, arg |-> thunks[s].arg, t |-> thunks[s].t,
                           overlap |-> \E x \in AllSlots \ {s} :
                                          thunks[x] # Idle])
              ELSE last.hist]

Sync(op) ==
    [op |-> op, rt |-> FALSE, lockedBefore |-> security.locked, n |-> last.n,
     failed |-> FALSE, tracing |-> last.tracing,
     hist |-> IF /\ last.tracing /\ op = "forceLock" /\ security.passwordSet
                 /\ (last.hist = <<>>
                       \/ last.hist[Len(last.hist)].op # "forceLock")
              THEN Append(last.hist, [op |-> op, arg |-> None, t |-> None,
                                      overlap |-> FALSE])
              ELSE last.hist]

\* a dispatch, counted when the specification gives a budget
Dispatched(op, budget) ==
    [Sync(op) EXCEPT !.n = IF budget = None THEN last.n ELSE last.n + 1]

\* S: the slots the specification allows; budget: null, or the number of
\* dispatches it allows
CanDispatch(S, budget) ==
    /\ \E s \in S : thunks[s] = Idle
    /\ budget # None => last.n < budget[1]

\* a change of the stored hash ends every round trip in progress
EndRoundTrips(th) == [s \in AllSlots |-> [th[s] EXCEPT !.rt = FALSE]]

\* the toast manager before the first showToast
NoToasts ==
    [currentToast |-> None, toastQueue |-> <<>>, timers |-> <<>>,
     displayed |-> <<>>, nextId |-> 1]

Init ==
    /\ now = Epoch
    /\ store = StoreWithWallet
    /\ security = initialState
    /\ wallet = walletInitialState
    /\ thunks = [s \in AllSlots |-> Idle]
    /\ toasts = NoToasts
    /\ pwGhost = [pw |-> None, ok |-> FALSE]
    /\ last = [op |-> "init", rt |-> FALSE, lockedBefore |-> FALSE, n |-> 0,
               failed |-> FALSE, tracing |-> FALSE, hist |-> <<>>]

\* ------------------------------------------------------------ environment
\* variant: a timer locks the wallet as soon as the duration has elapsed
Tick_autoLocks(T) ==
    /\ \E t \in T : t > now /\ now' = t
    /\ security' = [security EXCEPT !.locked =
                       isLocked(security.passwordSet, security.lastUnlockedAt,
                                security.autoLockMinutes, now')]
    /\ last' = Sync("tick")
    /\ UNCHANGED <<store, wallet, thunks, pwGhost, toasts>>

Tick(T) ==
    /\ \E t \in T : t > now /\ now' = t
    /\ last' = Sync("tick")
    /\ UNCHANGED <<store, security, wallet, thunks, pwGhost, toasts>>

\* the process is killed and started again: the redux store is rebuilt from
\* the initial states, thunks in flight are gone, the secure store persists
Restart ==
    /\ security' = initialState
    /\ wallet' = walletInitialState
    /\ thunks' = [s \in AllSlots |-> Idle]
    /\ last' = Sync("restart")
    /\ UNCHANGED <<now, store, pwGhost, toasts>>

\* ------------------------------------------------ synchronous reducers
ForceLock ==
    /\ security' = forceLock(security)
    /\ last' = Sync("forceLock")
    /\ UNCHANGED <<now, store, wallet, thunks, pwGhost, toasts>>

ClearSecurityState ==
    /\ security' = clearSecurityState(security)
    /\ last' = Sync("clearSecurityState")
    /\ UNCHANGED <<now, store, wallet, thunks, pwGhost, toasts>>

\* ------------------------------- initializeSecurity / refreshLockState
DispatchInitialize(S, budget) ==
    /\ CanDispatch(S, budget)
    /\ security' = initializePending(security)
    /\ thunks' = [thunks EXCEPT ![FreeSlot(S)] = Started("initialize", "read", None)]
    /\ last' = Dispatched("initialize.pending", budget)
    /\ UNCHANGED <<now, store, wallet, pwGhost, toasts>>

DispatchRefresh(S, budget) ==
    /\ CanDispatch(S, budget)
    /\ thunks' = [thunks EXCEPT ![FreeSlot(S)] = Started("refresh", "read", None)]
    /\ last' = Dispatched("refresh.pending", budget)
    /\ UNCHANGED <<now, store, security, wallet, pwGhost, toasts>>

\* Promise.all of the three reads, issued in one synchronous turn
ReadLockState(s) ==
    /\ thunks[s].kind \in {"initialize", "refresh"}
    /\ thunks[s].pc = "read"
    /\ \E ok \in BOOLEAN :
         thunks' = [thunks EXCEPT ![s] =
            IF ok
            THEN [@ EXCEPT !.pc = "complete",
                           !.got = <<getWalletPasswordHash(store),
                                     getAutoLockMinutes(store),
                                     getLastUnlockedTimestamp(store)>>]
            ELSE [@ EXCEPT !.pc = "complete", !.err = ReadFailMsg]]
    /\ last' = Step("read", s)
    /\ UNCHANGED <<now, store, security, wallet, pwGhost, toasts>>

\* the continuation computes the payload with Date.now() and the fulfilled
\* (or rejected) action is reduced
CompleteLockState(s) ==
    LET th == thunks[s]
        payload == LockPayload(th.got[1], th.got[2], th.got[3], now)
    IN  /\ th.kind \in {"initialize", "refresh"}
        /\ th.pc = "complete"
        /\ security' =
             IF th.err = NullStr
             THEN IF th.kind = "initialize"
                  THEN initializeFulfilled(security, payload)
                  ELSE refreshFulfilled(security, payload)
             ELSE IF th.kind = "initialize"
                  THEN initializeRejected(security, th.err)
                  ELSE security
        /\ thunks' = [thunks EXCEPT ![s] = Idle]
        /\ last' = Step(IF th.err = NullStr THEN th.kind \o ".fulfilled"
                        ELSE th.kind \o ".rejected", s)
        /\ UNCHANGED <<now, store, wallet, pwGhost, toasts>>

\* ------------------------------------------------- setSecurityPassword
DispatchSetPassword(S, budget, password) ==
    /\ CanDispatch(S, budget)
    /\ security' = setPasswordPending(security)
    /\ thunks' = [thunks EXCEPT ![FreeSlot(S)] =
                    Started("setPassword", "writeHash", Some(password))]
    /\ last' = Dispatched("setPassword.pending", budget)
    /\ UNCHANGED <<now, store, wallet, pwGhost, toasts>>

\* await setWalletPasswordHash(hash)
WritePasswordHash(s) ==
    LET th == thunks[s] IN
    /\ th.kind = "setPassword" /\ th.pc = "writeHash"
    /\ \E ok \in BOOLEAN :
         IF ok
         THEN /\ store' = setWalletPasswordHash(store, Digest(th.arg[1]))
              /\ thunks' = [EndRoundTrips(thunks) EXCEPT ![s].pc = "writeTs"]
              /\ pwGhost' = [pw |-> th.arg, ok |-> FALSE]
         ELSE /\ thunks' = [thunks EXCEPT ![s].pc = "complete",
                                          ![s].err = WriteFailMsg]
              /\ UNCHANGED <<store, pwGhost>>
    /\ last' = Step("writeHash", s)
    /\ UNCHANGED <<now, security, wallet, toasts>>

\* variant: the timestamp is stored together with the duration in memory
WriteTimestamp_rewritesDuration(s) ==
    LET th == thunks[s] IN
    /\ th.kind \in {"setPassword", "unlock"} /\ th.pc = "writeTs"
    /\ store' = setAutoLockMinutes(setLastUnlockedTimestamp(store, now),
                                   security.autoLockMinutes)
    /\ thunks' = [thunks EXCEPT ![s].pc = "complete", ![s].t = Some(now)]
    /\ last' = Step("writeTs", s)
    /\ UNCHANGED <<now, security, wallet, pwGhost, toasts>>

\* const now = Date.now(); await setLastUnlockedTimestamp(now)
\* (setSecurityPassword after the hash is stored, unlockWalletWithPassword
\* after the digests matched)
WriteTimestamp(s) ==
    LET th == thunks[s] IN
    /\ th.kind \in {"setPassword", "unlock"} /\ th.pc = "writeTs"
    /\ \E ok \in BOOLEAN :
         IF ok
         THEN /\ store' = setLastUnlockedTimestamp(store, now)
              /\ thunks' = [thunks EXCEPT ![s].pc = "complete",
                                          ![s].t = Some(now)]
         ELSE /\ thunks' = [thunks EXCEPT ![s].pc = "complete",
                                          ![s].err = WriteFailMsg]
              /\ UNCHANGED store
    /\ last' = Step("writeTs", s)
    /\ UNCHANGED <<now, security, wallet, pwGhost, toasts>>

CompleteSetPassword(s) ==
    LET th == thunks[s] IN
    /\ th.kind = "setPassword" /\ th.pc = "complete"
    /\ security' = IF th.err = NullStr
                   THEN setPasswordFulfilled(security, th.t[1])
                   ELSE setPasswordRejected(security, th.err)
    /\ pwGhost' = IF th.err = NullStr /\ pwGhost.pw = th.arg
                  THEN [pwGhost EXCEPT !.ok = TRUE] ELSE pwGhost
    /\ thunks' = [thunks EXCEPT ![s] = Idle]
    /\ last' = Step(IF th.err = NullStr THEN "setPassword.fulfilled"
                    ELSE "setPassword.rejected", s)
    /\ UNCHANGED <<now, store, wallet, toasts>>

\* -------------------------------------------- unlockWalletWithPassword
DispatchUnlock(S, budget, password) ==
    /\ CanDispatch(S, budget)
    /\ security' = unlockPending(security)
    /\ thunks' = [thunks EXCEPT ![FreeSlot(S)] =
                    [Started("unlock", "readHash", Some(password))
                        EXCEPT !.rt = (pwGhost = [pw |-> Some(password),
                                                  ok |-> TRUE])]]
    /\ last' = Dispatched("unlock.pending", budget)
    /\ UNCHANGED <<now, store, wallet, pwGhost, toasts>>

\* variant: without a stored address the hash is reported as missing
ReadPasswordHash_needsWallet(s) ==
    LET th == thunks[s] IN
    /\ th.kind = "unlock" /\ th.pc = "readHash"
    /\ \E ok \in BOOLEAN :
         thunks' = [thunks EXCEPT ![s] =
            IF ok
            THEN [@ EXCEPT !.pc = "check",
                           !.got = <<IF IsSome(store[ADDRESS_KEY])
                                     THEN getWalletPasswordHash(store)
                                     ELSE None>>]
            ELSE [@ EXCEPT !.pc = "complete", !.err = ReadFailMsg]]
    /\ last' = Step("readHash", s)
    /\ UNCHANGED <<now, store, security, wallet, pwGhost, toasts>>

\* const storedHash = await getWalletPasswordHash()
ReadPasswordHash(s) ==
    LET th == thunks[s] IN
    /\ th.kind = "unlock" /\ th.pc = "readHash"
    /\ \E ok \in BOOLEAN :
         thunks' = [thunks EXCEPT ![s] =
            IF ok
            THEN [@ EXCEPT !.pc = "check",
                           !.got = <<getWalletPasswordHash(store)>>]
            ELSE [@ EXCEPT !.pc = "complete", !.err = ReadFailMsg]]
    /\ last' = Step("readHash", s)
    /\ UNCHANGED <<now, store, security, wallet, pwGhost, toasts>>

\* the two checks on storedHash; a rejectWithValue is reduced at once
CheckPassword(s) ==
    LET th == thunks[s]
        storedHash == th.got[1]
    IN  /\ th.kind = "unlock" /\ th.pc = "check"
        /\ IF checkPassword(th.arg[1], storedHash) # NullStr
           THEN /\ security' = unlockRejected(security,
                                   checkPassword(th.arg[1], storedHash))
                /\ thunks' = [thunks EXCEPT ![s] = Idle]
                /\ last' = Step("unlock.rejected", s)
           ELSE /\ thunks' = [thunks EXCEPT ![s].pc = "writeTs"]
                /\ last' = Step("unlock.matched", s)
                /\ UNCHANGED security
        /\ UNCHANGED <<now, store, wallet, pwGhost, toasts>>

CompleteUnlock(s) ==
    LET th == thunks[s] IN
    /\ th.kind = "unlock" /\ th.pc = "complete"
    /\ security' = IF th.err = NullStr
                   THEN unlockFulfilled(security, th.t[1])
                   ELSE unlockRejected(security, th.err)
    /\ thunks' = [thunks EXCEPT ![s] = Idle]
    /\ last' = Step(IF th.err = NullStr THEN "unlock.fulfilled"
                    ELSE "unlock.rejected", s)
    /\ UNCHANGED <<now, store, wallet, pwGhost, toasts>>

\* ---------------------------------------------- updateAutoLockDuration
DispatchUpdateAutoLock(S, budget, minutes) ==
    /\ CanDispatch(S, budget)
    /\ thunks' = [thunks EXCEPT ![FreeSlot(S)] =
                    Started("updateAutoLock", "write", Some(minutes))]
    /\ last' = Dispatched("updateAutoLock.pending", budget)
    /\ UNCHANGED <<now, store, security, wallet, pwGhost, toasts>>

\* variant: storing a new duration restarts the countdown
WriteAutoLock_resetsTimer(s) ==
    LET th == thunks[s] IN
    /\ th.kind = "updateAutoLock" /\ th.pc = "write"
    /\ store' = setLastUnlockedTimestamp(
                    setAutoLockMinutes(store, th.arg[1]), now)
    /\ thunks' = [thunks EXCEPT ![s].pc = "complete"]
    /\ last' = Step("writeAutoLock", s)
    /\ UNCHANGED <<now, security, wallet, pwGhost, toasts>>

\* await persistAutoLockMinutes(minutes)
WriteAutoLock(s) ==
    LET th == thunks[s] IN
    /\ th.kind = "updateAutoLock" /\ th.pc = "write"
    /\ \E ok \in BOOLEAN :
         IF ok
         THEN /\ store' = setAutoLockMinutes(store, th.arg[1])
              /\ thunks' = [thunks EXCEPT ![s].pc = "complete"]
         ELSE /\ thunks' = [thunks EXCEPT ![s].pc = "complete",
                                          ![s].err = WriteFailMsg]
              /\ UNCHANGED store
    /\ last' = Step("writeAutoLock", s)
    /\ UNCHANGED <<now, security, wallet, pwGhost, toasts>>

CompleteUpdateAutoLock(s) ==
    LET th == thunks[s] IN
    /\ th.kind = "updateAutoLock" /\ th.pc = "complete"
    /\ security' = IF th.err = NullStr
                   THEN updateAutoLockFulfilled(security, th.arg[1], now)
                   ELSE updateAutoLockRejected(security, th.err)
    /\ thunks' = [thunks EXCEPT ![s] = Idle]
    /\ last' = Step(IF th.err = NullStr THEN "updateAutoLock.fulfilled"
                    ELSE "updateAutoLock.rejected", s)
    /\ UNCHANGED <<now, store, wallet, pwGhost, toasts>>

\* ---------------------------------------------------- deleteWalletData
DispatchDelete(S, budget) ==
    /\ CanDispatch(S, budget)
    /\ wallet' = walletDeletePending(wallet)
    /\ thunks' = [thunks EXCEPT ![FreeSlot(S)] =
                    [Started("delete", "delete", None) EXCEPT !.i = 1]]
    /\ pwGhost' = [pw |-> None, ok |-> FALSE]
    /\ last' = Dispatched("delete.pending", budget)
    /\ UNCHANGED <<now, store, security, toasts>>

\* variant: the password hash is deleted together with the address
DeleteKey_cascades(s) ==
    LET th == thunks[s] IN
    /\ th.kind = "delete" /\ th.pc = "delete"
    /\ \E ok \in BOOLEAN :
         IF ok
         THEN /\ store' = IF th.i = 1
                          THEN deleteItemAsync(
                                  deleteItemAsync(store, DeleteOrder[th.i]),
                                  "passwordHash")
                          ELSE deleteItemAsync(store, DeleteOrder[th.i])
              /\ thunks' = [thunks EXCEPT ![s] =
                   IF th.i = Len(DeleteOrder)
                   THEN [@ EXCEPT !.pc = "complete"]
                   ELSE [@ EXCEPT !.i = th.i + 1]]
         ELSE /\ thunks' = [thunks EXCEPT ![s].pc = "complete",
                                          ![s].err = DeleteFailMsg]
              /\ UNCHANGED store
    /\ last' = Step("deleteKey", s)
    /\ UNCHANGED <<now, security, wallet, pwGhost, toasts>>

\* deleteWallet: one awaited deleteItemAsync per key, in DeleteOrder
DeleteKey(s) ==
    LET th == thunks[s] IN
    /\ th.kind = "delete" /\ th.pc = "delete"
    /\ \E ok \in BOOLEAN :
         IF ok
         THEN /\ store' = deleteItemAsync(store, DeleteOrder[th.i])
              /\ thunks' = [thunks EXCEPT ![s] =
                   IF th.i = Len(DeleteOrder)
                   THEN [@ EXCEPT !.pc = "complete"]
                   ELSE [@ EXCEPT !.i = th.i + 1]]
         ELSE /\ thunks' = [thunks EXCEPT ![s].pc = "complete",
                                          ![s].err = DeleteFailMsg]
              /\ UNCHANGED store
    /\ last' = Step("deleteKey", s)
    /\ UNCHANGED <<now, security, wallet, pwGhost, toasts>>

CompleteDelete(s) ==
    LET th == thunks[s] IN
    /\ th.kind = "delete" /\ th.pc = "complete"
    /\ IF th.err = NullStr
       THEN /\ wallet' = walletDeleteFulfilled(wallet)
            /\ security' = securityDeleteFulfilled(security)
       ELSE /\ wallet' = walletDeleteRejected(wallet, th.err)
            /\ UNCHANGED security
    /\ thunks' = [thunks EXCEPT ![s] = Idle]
    /\ last' = Step(IF th.err = NullStr THEN "delete.fulfilled"
                    ELSE "delete.rejected", s)
    /\ UNCHANGED <<now, store, pwGhost, toasts>>

\* ------------------------------------------------ loadWalletFromStorage
\* the thunk holds the value getWallet will return in got[1]
StartLoad == [Started("load", "read", None)
                 EXCEPT !.i = 1, !.got = <<Some(NoWalletData)>>]

DispatchLoad(S, budget) ==
    /\ CanDispatch(S, budget)
    /\ wallet' = walletPending(wallet)
    /\ thunks' = [thunks EXCEPT ![FreeSlot(S)] = StartLoad]
    /\ last' = Dispatched("load.pending", budget)
    /\ UNCHANGED <<now, store, security, pwGhost, toasts>>

\* getWallet: one awaited getter per field; a missing address returns null
ReadField(s) ==
    LET th == thunks[s]
        field == WalletFields[th.i]
    IN  /\ th.kind = "load" /\ th.pc = "read"
        /\ \E ok \in BOOLEAN :
             LET value == getWalletField(store, field, ok)
                 read == [th EXCEPT !.failed = @ \/ ~ok]
             IN  thunks' = [thunks EXCEPT ![s] =
                    IF field = "address" /\ ~TruthyStr(value)
                    THEN [read EXCEPT !.pc = "complete", !.got = <<None>>]
                    ELSE [read EXCEPT
                            !.got = <<Some(withField(th.got[1][1], field, value))>>,
                            !.i = th.i + 1,
                            !.pc = IF th.i = Len(WalletFields)
                                   THEN "complete" ELSE "read"]]
        /\ last' = Step("readField", s)
        /\ UNCHANGED <<now, store, security, wallet, pwGhost, toasts>>

CompleteLoad(s) ==
    LET th == thunks[s] IN
    /\ th.kind = "load" /\ th.pc = "complete"
    /\ wallet' = loadFulfilled(wallet, th.got[1])
    /\ thunks' = [thunks EXCEPT ![s] = Idle]
    /\ last' = Step("load.fulfilled", s)
    /\ UNCHANGED <<now, store, security, pwGhost, toasts>>

\* --------------------- createWallet / importWalletFrom... / handleImport
DispatchCreate(S, budget) ==
    /\ CanDispatch(S, budget)
    /\ wallet' = walletPending(wallet)
    /\ thunks' = [thunks EXCEPT ![FreeSlot(S)] = Started("create", "api", None)]
    /\ last' = Dispatched("create.pending", budget)
    /\ UNCHANGED <<now, store, security, pwGhost, toasts>>

\* kind: importSeed or importMnemonic
DispatchImport(S, budget, kind) ==
    /\ CanDispatch(S, budget)
    /\ wallet' = walletPending(wallet)
    /\ thunks' = [thunks EXCEPT ![FreeSlot(S)] =
                    Started(kind, "api",
                            Some(IF kind = "importSeed" THEN SeedInput
                                 ELSE MnemonicInput))]
    /\ last' = Dispatched(kind \o ".pending", budget)
    /\ UNCHANGED <<now, store, security, pwGhost, toasts>>

\* handleImport with a private key: no thunk, the screen calls the API and
\* saveWallet itself
StartImportPrivateKey(S, budget) ==
    /\ CanDispatch(S, budget)
    /\ thunks' = [thunks EXCEPT ![FreeSlot(S)] =
                    Started("importPrivateKey", "api", Some(PrivateKeyInput))]
    /\ last' = Dispatched("importPrivateKey", budget)
    /\ UNCHANGED <<now, store, security, wallet, pwGhost, toasts>>

WalletKinds == {"create", "importSeed", "importMnemonic", "importPrivateKey"}

\* the record the flow saves once the API has answered with data
recordToSave(th, data) ==
    CASE th.kind = "create" -> createRecord(data)
      [] th.kind = "importSeed" -> importRecord(data, "seed", th.arg[1])
      [] th.kind = "importMnemonic" -> importRecord(data, "mnemonic", th.arg[1])
      [] th.kind = "importPrivateKey" ->
             importRecord(data, "privateKey", th.arg[1])

FailMsgOf(kind) == IF kind = "create" THEN CreateFailMsg ELSE ImportFailMsg

\* await walletApi.createWallet() / importWalletFrom...(input);
\* got = <<response.data, the record for saveWallet>>
ApiWallet(s) ==
    LET th == thunks[s] IN
    /\ th.kind \in WalletKinds /\ th.pc = "api"
    /\ \E outcome \in ApiOutcomes :
       \E data \in IF th.kind = "create" THEN CreatedWallets
                   ELSE ImportedWallets :
         thunks' = [thunks EXCEPT ![s] =
            IF outcome = "ok"
            THEN [th EXCEPT !.got = <<data, recordToSave(th, data)>>,
                            !.i = NextSaved(recordToSave(th, data), 1),
                            !.pc = IF NextSaved(recordToSave(th, data), 1)
                                        > Len(WalletFields)
                                   THEN "complete" ELSE "save"]
            ELSE IF outcome = "unsuccessful" /\ th.kind = "importPrivateKey"
            THEN [th EXCEPT !.pc = "complete"]
            ELSE [th EXCEPT !.pc = "complete", !.failed = TRUE,
                            !.err = RejectMsg(outcome, FailMsgOf(th.kind))]]
    /\ last' = Step("api", s)
    /\ UNCHANGED <<now, store, security, wallet, pwGhost, toasts>>

\* variant: a write that throws removes what the save had written so far
SaveField_rollsBack(s) ==
    LET th == thunks[s]
        record == th.got[2]
        field == WalletFields[th.i]
    IN  /\ th.kind \in WalletKinds /\ th.pc = "save"
        /\ \E ok \in BOOLEAN :
             IF ok
             THEN /\ store' = setItemAsync(store, KeyOf(field), record[field][1])
                  /\ thunks' = [thunks EXCEPT ![s] =
                        [th EXCEPT !.i = NextSaved(record, th.i + 1),
                                   !.pc = IF NextSaved(record, th.i + 1)
                                               > Len(WalletFields)
                                          THEN "complete" ELSE "save"]]
             ELSE /\ thunks' = [thunks EXCEPT ![s] =
                        [th EXCEPT !.pc = "complete", !.failed = TRUE,
                                   !.err = FailMsgOf(th.kind)]]
                  /\ store' = [k \in StoreKeys |->
                        IF \E j \in 1..(th.i - 1) :
                              /\ KeyOf(WalletFields[j]) = k
                              /\ TruthyStr(record[WalletFields[j]])
                        THEN None ELSE store[k]]
        /\ last' = Step("saveField", s)
        /\ UNCHANGED <<now, security, wallet, pwGhost, toasts>>

\* variant: the first write replaces the whole stored record
SaveField_overwrites(s) ==
    LET th == thunks[s]
        record == th.got[2]
    IN  /\ th.kind \in WalletKinds /\ th.pc = "save"
        /\ store' = [k \in StoreKeys |->
                        IF \E f \in DOMAIN record : KeyOf(f) = k
                        THEN LET f == CHOOSE f \in DOMAIN record : KeyOf(f) = k
                             IN  IF TruthyStr(record[f]) THEN record[f] ELSE None
                        ELSE store[k]]
        /\ thunks' = [thunks EXCEPT ![s].pc = "complete"]
        /\ last' = Step("saveField", s)
        /\ UNCHANGED <<now, security, wallet, pwGhost, toasts>>

\* saveWallet: one awaited setItemAsync per field that passes its guard;
\* the Error it throws carries no response, so the flow's own message stays
SaveField(s) ==
    LET th == thunks[s]
        record == th.got[2]
        field == WalletFields[th.i]
    IN  /\ th.kind \in WalletKinds /\ th.pc = "save"
        /\ \E ok \in BOOLEAN :
             IF ok
             THEN /\ store' = setItemAsync(store, KeyOf(field), record[field][1])
                  /\ thunks' = [thunks EXCEPT ![s] =
                        [th EXCEPT !.i = NextSaved(record, th.i + 1),
                                   !.pc = IF NextSaved(record, th.i + 1)
                                               > Len(WalletFields)
                                          THEN "complete" ELSE "save"]]
             ELSE /\ thunks' = [thunks EXCEPT ![s] =
                        [th EXCEPT !.pc = "complete", !.failed = TRUE,
                                   !.err = FailMsgOf(th.kind)]]
                  /\ UNCHANGED store
        /\ last' = Step("saveField", s)
        /\ UNCHANGED <<now, security, wallet, pwGhost, toasts>>

\* variant: a new wallet starts with a fresh security state
CompleteWallet_resetsSecurity(s) ==
    LET th == thunks[s] IN
    /\ th.kind \in {"create", "importSeed", "importMnemonic"}
    /\ th.pc = "complete"
    /\ wallet' = IF th.err # NullStr THEN walletRejected(wallet, th.err)
                  ELSE IF th.kind = "create"
                       THEN createFulfilled(wallet, th.got[1])
                       ELSE importFulfilled(wallet, th.got[1])
    /\ security' = IF th.err = NullStr THEN initialState ELSE security
    /\ thunks' = [thunks EXCEPT ![s] = Idle]
    /\ last' = Step(IF th.err = NullStr THEN th.kind \o ".fulfilled"
                    ELSE th.kind \o ".rejected", s)
    /\ UNCHANGED <<now, store, pwGhost, toasts>>

CompleteWallet(s) ==
    LET th == thunks[s] IN
    /\ th.kind \in {"create", "importSeed", "importMnemonic"}
    /\ th.pc = "complete"
    /\ wallet' = IF th.err # NullStr THEN walletRejected(wallet, th.err)
                  ELSE IF th.kind = "create"
                       THEN createFulfilled(wallet, th.got[1])
                       ELSE importFulfilled(wallet, th.got[1])
    /\ thunks' = [thunks EXCEPT ![s] = Idle]
    /\ last' = Step(IF th.err = NullStr THEN th.kind \o ".fulfilled"
                    ELSE th.kind \o ".rejected", s)
    /\ UNCHANGED <<now, store, security, pwGhost, toasts>>

\* handleImport after its try block: a throw ends in the catch block, and
\* otherwise loadWalletFromStorage is dispatched, saved or not
CompleteImportPrivateKey(s) ==
    LET th == thunks[s] IN
    /\ th.kind = "importPrivateKey" /\ th.pc = "complete"
    /\ IF th.err # NullStr
       THEN /\ thunks' = [thunks EXCEPT ![s] = Idle]
            /\ last' = Step("importPrivateKey.failed", s)
            /\ UNCHANGED wallet
       ELSE /\ wallet' = walletPending(wallet)
            /\ thunks' = [thunks EXCEPT ![s] = StartLoad]
            /\ last' = Step("load.pending", s)
    /\ UNCHANGED <<now, store, security, pwGhost, toasts>>

\* -------------------------------------------------- fetchAccountBalance
\* loadWalletData (refresh = FALSE) and onRefresh, which dispatches
\* setRefreshing(true) first; both need the address of the loaded wallet
DispatchFetchBalance(S, budget, refresh) ==
    /\ CanDispatch(S, budget)
    /\ IsSome(wallet.walletData)
    /\ wallet' = fetchBalancePending(IF refresh THEN setRefreshing(wallet, TRUE)
                                     ELSE wallet)
    /\ thunks' = [thunks EXCEPT ![FreeSlot(S)] =
                    Started("fetchBalance", "api", None)]
    /\ last' = Dispatched("fetchBalance.pending", budget)
    /\ UNCHANGED <<now, store, security, pwGhost, toasts>>

\* await walletApi.getAccountBalance(address); got = <<the payload>>
ApiBalance(s) ==
    LET th == thunks[s] IN
    /\ th.kind = "fetchBalance" /\ th.pc = "api"
    /\ \E outcome \in ApiOutcomes : \E data \in Balances :
         thunks' = [thunks EXCEPT ![s] =
            [th EXCEPT !.pc = "complete", !.failed = (outcome # "ok"),
                       !.got = <<balancePayload(outcome, data)>>]]
    /\ last' = Step("api", s)
    /\ UNCHANGED <<now, store, security, wallet, pwGhost, toasts>>

\* the payload creator never throws: the action is always fulfilled
CompleteFetchBalance(s) ==
    LET th == thunks[s] IN
    /\ th.kind = "fetchBalance" /\ th.pc = "complete"
    /\ wallet' = fetchBalanceFulfilled(wallet, th.got[1])
    /\ thunks' = [thunks EXCEPT ![s] = Idle]
    /\ last' = Step("fetchBalance.fulfilled", s)
    /\ UNCHANGED <<now, store, security, pwGhost, toasts>>

ClearWallet ==
    /\ wallet' = clearWallet(wallet)
    /\ last' = Sync("clearWallet")
    /\ UNCHANGED <<now, store, security, thunks, pwGhost, toasts>>

\* walletApi.createToken and walletApi.transferTokens, called by the screens:
\* the answer only reaches component state
RemoteCall(op) ==
    /\ last' = Sync(op)
    /\ UNCHANGED <<now, store, security, wallet, thunks, pwGhost, toasts>>

\* ---------------------------------------------------------- specification
Next ==
    \/ Tick(Times)
    \/ Restart
    \/ ForceLock
    \/ ClearSecurityState
    \/ DispatchInitialize(Slots, None)
    \/ DispatchRefresh(Slots, None)
    \/ \E p \in Passwords : DispatchSetPassword(Slots, None, p)
    \/ \E p \in Passwords : DispatchUnlock(Slots, None, p)
    \/ \E m \in AutoLockChoices : DispatchUpdateAutoLock(Slots, None, m)
    \/ DispatchDelete(Slots, None)
    \/ \E s \in AllSlots : ReadLockState(s)
    \/ \E s \in AllSlots : CompleteLockState(s)
    \/ \E s \in AllSlots : WritePasswordHash(s)
    \/ \E s \in AllSlots : WriteTimestamp(s)
    \/ \E s \in AllSlots : CompleteSetPassword(s)
    \/ \E s \in AllSlots : ReadPasswordHash(s)
    \/ \E s \in AllSlots : CheckPassword(s)
    \/ \E s \in AllSlots : CompleteUnlock(s)
    \/ \E s \in AllSlots : WriteAutoLock(s)
    \/ \E s \in AllSlots : CompleteUpdateAutoLock(s)
    \/ \E s \in AllSlots : DeleteKey(s)
    \/ \E s \in AllSlots : CompleteDelete(s)

Spec == Init /\ [][Next]_vars

\* Two thunks may be in flight at once: the second is dispatched while the
\* first is suspended at any of its awaits.  The run dispatches at most
\* MaxRaceDispatch thunks and the clock is read at most one minute later.
RaceTimes == {Epoch + MsPerMinute}
RaceBudget == Some(MaxRaceDispatch)

NextRace ==
    \/ Tick(RaceTimes)
    \/ ForceLock
    \/ ClearSecurityState
    \/ DispatchInitialize(AllSlots, RaceBudget)
    \/ DispatchRefresh(AllSlots, RaceBudget)
    \/ \E p \in Passwords : DispatchSetPassword(AllSlots, RaceBudget, p)
    \/ \E p \in Passwords : DispatchUnlock(AllSlots, RaceBudget, p)
    \/ \E m \in AutoLockChoices : DispatchUpdateAutoLock(AllSlots, RaceBudget, m)
    \/ DispatchDelete(AllSlots, RaceBudget)
    \/ \E s \in AllSlots : ReadLockState(s)
    \/ \E s \in AllSlots : CompleteLockState(s)
    \/ \E s \in AllSlots : WritePasswordHash(s)
    \/ \E s \in AllSlots : WriteTimestamp(s)
    \/ \E s \in AllSlots : CompleteSetPassword(s)
    \/ \E s \in AllSlots : ReadPasswordHash(s)
    \/ \E s \in AllSlots : CheckPassword(s)
    \/ \E s \in AllSlots : CompleteUnlock(s)
    \/ \E s \in AllSlots : WriteAutoLock(s)
    \/ \E s \in AllSlots : CompleteUpdateAutoLock(s)
    \/ \E s \in AllSlots : DeleteKey(s)
    \/ \E s \in AllSlots : CompleteDelete(s)

SpecRace == Init /\ [][NextRace]_vars

\* The credential vault and the wallet slice, one flow at a time.  The run
\* starts with the stored wallet and no password, or after a fulfilled
\* setSecurityPassword(VaultPassword) at Epoch.
VaultPassword == <<"a">>
SecuredStore ==
    setLastUnlockedTimestamp(
        setWalletPasswordHash(StoreWithWallet, Digest(VaultPassword)), Epoch)

InitVault ==
    /\ now = Epoch
    /\ wallet = walletInitialState
    /\ thunks = [s \in AllSlots |-> Idle]
    /\ toasts = NoToasts
    /\ last = [op |-> "init", rt |-> FALSE, lockedBefore |-> FALSE, n |-> 0,
               failed |-> FALSE, tracing |-> FALSE, hist |-> <<>>]
    /\ \/ /\ store = StoreWithWallet
          /\ security = initialState
          /\ pwGhost = [pw |-> None, ok |-> FALSE]
       \/ /\ store = SecuredStore
          /\ security = setPasswordFulfilled(initialState, Epoch)
          /\ pwGhost = [pw |-> Some(VaultPassword), ok |-> TRUE]

NextVault ==
    \/ ForceLock
    \/ ClearWallet
    \/ \E op \in {"createToken", "transferTokens"} : RemoteCall(op)
    \/ DispatchDelete(Slots, None)
    \/ DispatchLoad(Slots, None)
    \/ DispatchCreate(Slots, None)
    \/ \E k \in {"importSeed", "importMnemonic"} : DispatchImport(Slots, None, k)
    \/ StartImportPrivateKey(Slots, None)
    \/ \E r \in BOOLEAN : DispatchFetchBalance(Slots, None, r)
    \/ \E s \in AllSlots : DeleteKey(s)
    \/ \E s \in AllSlots : CompleteDelete(s)
    \/ \E s \in AllSlots : ReadField(s)
    \/ \E s \in AllSlots : CompleteLoad(s)
    \/ \E s \in AllSlots : ApiWallet(s)
    \/ \E s \in AllSlots : SaveField(s)
    \/ \E s \in AllSlots : CompleteWallet(s)
    \/ \E s \in AllSlots : CompleteImportPrivateKey(s)
    \/ \E s \in AllSlots : ApiBalance(s)
    \/ \E s \in AllSlots : CompleteFetchBalance(s)

SpecVault == InitVault /\ [][NextVault]_vars

\* The lock-state engine of a wallet secured with VaultPassword at Epoch,
\* with the stored duration absent or one minute: at most MaxTraceDispatch
\* thunks, two of which may be in flight at once, manual locks, restarts
\* and one reading of the clock a minute later; the run keeps its history.
TraceBudget == Some(MaxTraceDispatch)

InitTrace ==
    /\ now = Epoch
    /\ wallet = walletInitialState
    /\ thunks = [s \in AllSlots |-> Idle]
    /\ toasts = NoToasts
    /\ pwGhost = [pw |-> Some(VaultPassword), ok |-> TRUE]
    /\ last = [op |-> "init", rt |-> FALSE, lockedBefore |-> FALSE, n |-> 0,
               failed |-> FALSE, tracing |-> TRUE, hist |-> <<>>]
    /\ \/ /\ store = SecuredStore
          /\ security = setPasswordFulfilled(initialState, Epoch)
       \/ /\ store = setAutoLockMinutes(SecuredStore, 1)
          /\ security = updateAutoLockFulfilled(
                            setPasswordFulfilled(initialState, Epoch), 1, Epoch)

NextTrace ==
    \/ Tick(RaceTimes)
    \/ Restart
    \/ ForceLock
    \/ DispatchInitialize(AllSlots, TraceBudget)
    \/ DispatchRefresh(AllSlots, TraceBudget)
    \/ \E p \in Passwords : DispatchUnlock(AllSlots, TraceBudget, p)
    \/ \E m \in AutoLockChoices :
         DispatchUpdateAutoLock(AllSlots, TraceBudget, m)
    \/ \E s \in AllSlots : ReadLockState(s)
    \/ \E s \in AllSlots : CompleteLockState(s)
    \/ \E s \in AllSlots : WriteTimestamp(s)
    \/ \E s \in AllSlots : ReadPasswordHash(s)
    \/ \E s \in AllSlots : CheckPassword(s)
    \/ \E s \in AllSlots : CompleteUnlock(s)
    \/ \E s \in AllSlots : WriteAutoLock(s)
    \/ \E s \in AllSlots : CompleteUpdateAutoLock(s)

SpecTrace == InitTrace /\ [][NextTrace]_vars

\* ------------------------------------------------------------- screens
\* what the user types into a password field: a string of characters
TypedInputs ==
    {<<"s", "e", "c", "r", "e", "t">>,
     <<"s", "e", "c", "r", "e", "t", " ">>,
     <<" ", "s", "e", "c", "r", "e", "t">>,
     <<"s", "e", "c">>,
     <<" ">>}

\* String.prototype.trim
Whitespace == {" ", "\t", "\n"}

RECURSIVE TrimStart(_)
TrimStart(str) ==
    IF str # <<>> /\ str[1] \in Whitespace THEN TrimStart(Tail(str)) ELSE str

RECURSIVE TrimEnd(_)
TrimEnd(str) ==
    IF str # <<>> /\ str[Len(str)] \in Whitespace
    THEN TrimEnd(SubSeq(str, 1, Len(str) - 1)) ELSE str

Trim(str) == TrimEnd(TrimStart(str))

\* set-password screen, shown until a password is known to be set: a short
\* password or a confirmation that differs is refused with an alert
handleSavePassword(S, budget, password, confirmPassword) ==
    /\ security.initializing \/ ~security.passwordSet
    /\ Len(password) >= 6
    /\ password = confirmPassword
    /\ DispatchSetPassword(S, budget, password)

\* unlock prompt of the wallet screen, visible while passwordSet && locked
handleUnlockWallet(S, budget, passwordInput) ==
    /\ security.passwordSet /\ security.locked
    /\ Trim(passwordInput) # <<>>
    /\ CanDispatch(S, budget)
    /\ security' = unlockPending(security)
    /\ thunks' = [thunks EXCEPT ![FreeSlot(S)] =
                    [Started("unlock", "readHash", Some(Trim(passwordInput)))
                        EXCEPT !.rt = (pwGhost = [pw |-> Some(passwordInput),
                                                  ok |-> TRUE])]]
    /\ last' = Dispatched("unlock.pending", budget)
    /\ UNCHANGED <<now, store, wallet, pwGhost, toasts>>

\* the set-password screen, the unlock prompt and the lock button
NextScreens ==
    \/ \E p, c \in TypedInputs : handleSavePassword(Slots, None, p, c)
    \/ \E p \in TypedInputs : handleUnlockWallet(Slots, None, p)
    \/ ForceLock
    \/ Tick(RaceTimes)
    \/ \E s \in AllSlots : WritePasswordHash(s)
    \/ \E s \in AllSlots : WriteTimestamp(s)
    \/ \E s \in AllSlots : CompleteSetPassword(s)
    \/ \E s \in AllSlots : ReadPasswordHash(s)
    \/ \E s \in AllSlots : CheckPassword(s)
    \/ \E s \in AllSlots : CompleteUnlock(s)

SpecScreens == Init /\ [][NextScreens]_vars

\* ------------------------------------------------------- toast manager
\* One component uses the hook, so the only listener is its own
\* setCurrentToast.  A toast is its id; ids are handed out in the order of
\* the showToast calls.  Each action includes the render that follows it
\* and the effect that runs when currentToast has changed.

\* the effect of useToast: with no current toast the head of the queue is
\* taken and made current
processQueue(t) ==
    IF t.toastQueue # <<>> /\ t.currentToast = None
    THEN [t EXCEPT !.currentToast = Some(Head(t.toastQueue)),
                   !.toastQueue = Tail(t.toastQueue),
                   !.displayed = Append(t.displayed, Head(t.toastQueue))]
    ELSE t

\* setCurrentToast(toast) followed by the render: a toast with a new key
\* is mounted
setCurrentToast(t, id) ==
    [t EXCEPT !.currentToast = Some(id),
              !.displayed = IF t.currentToast = Some(id) THEN t.displayed
                            ELSE Append(t.displayed, id)]

\* showToast: queued when a toast is current, else made current; then every
\* listener is called with the new toast
showToast ==
    /\ toasts.nextId <= MaxToasts
    /\ LET id == toasts.nextId
           queued == IF toasts.currentToast # None
                     THEN [toasts EXCEPT !.toastQueue = Append(@, id)]
                     ELSE setCurrentToast(toasts, id)
           notified == setCurrentToast(queued, id)
       IN  toasts' = processQueue([notified EXCEPT !.nextId = id + 1])
    /\ UNCHANGED <<now, store, security, wallet, thunks, pwGhost, last>>

\* onClose of the toast on screen (its timer or its close button):
\* currentToast is cleared and the head of the queue is handed to a timer
handleClose ==
    /\ toasts.currentToast # None
    /\ LET cleared == [toasts EXCEPT !.currentToast = None]
           shifted == IF toasts.toastQueue # <<>>
                      THEN [cleared EXCEPT
                              !.toastQueue = Tail(@),
                              !.timers = Append(@, Head(toasts.toastQueue))]
                      ELSE cleared
       IN  toasts' = processQueue(shifted)
    /\ UNCHANGED <<now, store, security, wallet, thunks, pwGhost, last>>

\* setTimeout(() => setCurrentToast(next), 100) fires
timerFires ==
    /\ toasts.timers # <<>>
    /\ toasts' = processQueue(
                    setCurrentToast([toasts EXCEPT !.timers = Tail(@)],
                                    Head(toasts.timers)))
    /\ UNCHANGED <<now, store, security, wallet, thunks, pwGhost, last>>

NextToast == showToast \/ handleClose \/ timerFires

SpecToast == Init /\ [][NextToast]_vars

\* The engine operations, one at a time, with the scheduling the runtime
\* gives them: every awaited secure-store call settles, by resolving or by
\* throwing, and the continuation of a settled call runs.
NextLive ==
    \/ DispatchInitialize(Slots, None)
    \/ DispatchRefresh(Slots, None)
    \/ \E p \in Passwords : DispatchSetPassword(Slots, None, p)
    \/ \E p \in Passwords : DispatchUnlock(Slots, None, p)
    \/ \E m \in AutoLockChoices : DispatchUpdateAutoLock(Slots, None, m)
    \/ \E s \in AllSlots : ReadLockState(s)
    \/ \E s \in AllSlots : CompleteLockState(s)
    \/ \E s \in AllSlots : WritePasswordHash(s)
    \/ \E s \in AllSlots : WriteTimestamp(s)
    \/ \E s \in AllSlots : CompleteSetPassword(s)
    \/ \E s \in AllSlots : ReadPasswordHash(s)
    \/ \E s \in AllSlots : CheckPassword(s)
    \/ \E s \in AllSlots : CompleteUnlock(s)
    \/ \E s \in AllSlots : WriteAutoLock(s)
    \/ \E s \in AllSlots : CompleteUpdateAutoLock(s)

Settles ==
    /\ WF_vars(\E s \in AllSlots : ReadLockState(s))
    /\ WF_vars(\E s \in AllSlots : CompleteLockState(s))
    /\ WF_vars(\E s \in AllSlots : WritePasswordHash(s))
    /\ WF_vars(\E s \in AllSlots : WriteTimestamp(s))
    /\ WF_vars(\E s \in AllSlots : CompleteSetPassword(s))
    /\ WF_vars(\E s \in AllSlots : ReadPasswordHash(s))
    /\ WF_vars(\E s \in AllSlots : CheckPassword(s))
    /\ WF_vars(\E s \in AllSlots : CompleteUnlock(s))
    /\ WF_vars(\E s \in AllSlots : WriteAutoLock(s))
    /\ WF_vars(\E s \in AllSlots : CompleteUpdateAutoLock(s))

SpecLive == Init /\ [][NextLive]_vars /\ Settles

\* ------------------------------------------------------------ properties
\* slot s holds a thunk of one of the kinds at pc, and this step ends it
\* with the action op
Ends(s, kinds, pc, op) ==
    /\ thunks[s].kind \in kinds
    /\ thunks[s].pc = pc
    /\ thunks'[s] = Idle
    /\ last'.op = op

Locked == security.passwordSet /\ security.locked

\* C1: when initialize() or refreshLockState() is fulfilled, passwordSet,
\* autoLockMinutes (5 when none is stored) and lastUnlockedAt are the values
\* the call read from the store, and locked = passwordSet AND (lastUnlockedAt
\* absent OR now - lastUnlockedAt >= autoLockMinutes * 60000); with no hash
\* stored the result is passwordSet = FALSE and locked = FALSE
LockStateDerivedFromReads ==
    [][\A s \in AllSlots :
        (\/ Ends(s, {"initialize"}, "complete", "initialize.fulfilled")
         \/ Ends(s, {"refresh"}, "complete", "refresh.fulfilled"))
        => LET hashRead == thunks[s].got[1]
               minutesRead == thunks[s].got[2]
               unlockedRead == thunks[s].got[3]
               minutes == IF minutesRead = None THEN 5 ELSE minutesRead[1]
           IN  /\ security'.passwordSet = (hashRead # None)
               /\ security'.autoLockMinutes = minutes
               /\ security'.lastUnlockedAt = unlockedRead
               /\ security'.locked =
                    (/\ hashRead # None
                     /\ \/ unlockedRead = None
                        \/ now' - unlockedRead[1] >= minutes * 60000)
               /\ hashRead = None =>
                    ~security'.passwordSet /\ ~security'.locked]_vars

LockStateDerivedWitness ==
    /\ last.op = "initialize.fulfilled"
    /\ security.passwordSet /\ security.locked
    /\ security.lastUnlockedAt # None
    /\ store["autoLockMinutes"] = None

\* C2: a wallet with no password is never locked
LockedImpliesPasswordSet == security.locked => security.passwordSet

\* forceLock has locked the wallet while another thunk was in flight
LockedWitness ==
    /\ security.locked
    /\ last.op = "forceLock"
    /\ \E s \in AllSlots : thunks[s] # Idle

\* C5: with a password set and a stored lastUnlockedAt, a fulfilled
\* refreshLockState or initialize leaves locked = TRUE exactly when the time
\* elapsed since lastUnlockedAt is at least autoLockMinutes * 60000 ms, the
\* boundary included; with autoLockMinutes = 5, four minutes give unlocked
\* and six minutes give locked
LockedExactlyWhenElapsed ==
    [][(/\ last'.op \in {"initialize.fulfilled", "refresh.fulfilled"}
        /\ security'.passwordSet
        /\ security'.lastUnlockedAt # None)
       => LET elapsed == now' - security'.lastUnlockedAt[1]
          IN  /\ security'.locked
                   <=> elapsed >= security'.autoLockMinutes * 60000
              /\ security'.autoLockMinutes = 5 /\ elapsed = 4 * 60000
                   => ~security'.locked
              /\ security'.autoLockMinutes = 5 /\ elapsed = 6 * 60000
                   => security'.locked]_vars

\* a refresh exactly at the boundary, which locks a wallet that was unlocked
LockedAtBoundaryWitness ==
    /\ last.op = "refresh.fulfilled"
    /\ ~last.lockedBefore
    /\ security.passwordSet /\ security.locked
    /\ security.lastUnlockedAt # None
    /\ now - security.lastUnlockedAt[1] = security.autoLockMinutes * 60000

\* C6: forceLock sets locked when a password is set, whatever time has
\* elapsed, and changes nothing when none is set; passwordSet,
\* autoLockMinutes, lastUnlockedAt and the store are unchanged either way
ForceLockFrame ==
    [][last'.op = "forceLock"
       => /\ security.passwordSet => security'.locked
          /\ ~security.passwordSet => security' = security
          /\ security'.passwordSet = security.passwordSet
          /\ security'.autoLockMinutes = security.autoLockMinutes
          /\ security'.lastUnlockedAt = security.lastUnlockedAt
          /\ store' = store]_vars

\* forceLock has locked a wallet whose auto-lock time had not elapsed
ForceLockWitness ==
    /\ last.op = "forceLock"
    /\ ~last.lockedBefore
    /\ security.passwordSet /\ security.locked
    /\ security.lastUnlockedAt # None
    /\ now - security.lastUnlockedAt[1] < security.autoLockMinutes * 60000

\* slot s takes a step of its own thunk
StepOf(s) == thunks'[s].pc # thunks[s].pc /\ last'.op # "restart"

\* C3: a Locked wallet stays Locked until an unlock with the matching
\* password is fulfilled or the wallet is deleted (a restart or
\* clearSecurityState rebuilds the state and is not counted)
LockedUntilUnlock ==
    [][(Locked /\ ~Locked')
       => last'.op \in {"unlock.fulfilled", "delete.fulfilled",
                        "restart", "clearSecurityState"}]_vars

\* C4: a successful setPassword(password) stores the digest and
\* lastUnlockedAt = now, and its reducer leaves passwordSet = TRUE,
\* locked = FALSE and lastUnlockedAt equal to the stored timestamp; a
\* fulfilled unlock leaves locked = FALSE as well
SetPasswordPersistsAndUnlocks ==
    [][\A s \in AllSlots :
        /\ (/\ thunks[s].kind = "setPassword"
            /\ thunks[s].pc = "writeHash"
            /\ thunks'[s].pc = "writeTs")
           => store'["passwordHash"] = Some(Digest(thunks[s].arg[1]))
        /\ (/\ thunks[s].kind = "setPassword"
            /\ thunks[s].pc = "writeTs"
            /\ thunks'[s].pc = "complete"
            /\ thunks'[s].err = NullStr)
           => /\ store'["lastUnlockedAt"] = Some(ToDecimal(now))
              /\ thunks'[s].t = Some(now)
        /\ Ends(s, {"setPassword"}, "complete", "setPassword.fulfilled")
           => /\ security'.passwordSet
              /\ ~security'.locked
              /\ security'.lastUnlockedAt = thunks[s].t
              /\ store'["lastUnlockedAt"]
                    = Some(ToDecimal(security'.lastUnlockedAt[1]))
              /\ store'["passwordHash"] = Some(Digest(thunks[s].arg[1]))
        /\ Ends(s, {"unlock"}, "complete", "unlock.fulfilled")
           => ~security'.locked]_vars

\* setPassword was fulfilled on a wallet that was locked
SetPasswordWitness ==
    /\ last.op = "setPassword.fulfilled"
    /\ last.lockedBefore
    /\ security.passwordSet /\ ~security.locked
    /\ security.lastUnlockedAt # None

\* C7: after a fulfilled setPassword(p), with no delete and no other
\* setPassword since, unlock(p) is never rejected for its password: unless
\* a store call of the unlock itself fails it is fulfilled, and it leaves
\* locked = FALSE and lastUnlockedAt at the time the unlock took
RoundTripUnlocks ==
    [][\A s \in AllSlots :
        (thunks[s].kind = "unlock" /\ thunks[s].rt)
        => /\ (thunks[s].pc = "check" /\ StepOf(s))
              => thunks'[s].pc = "writeTs"
           /\ (thunks[s].pc = "writeTs" /\ StepOf(s)
                 /\ thunks'[s].err = NullStr)
              => thunks'[s].t = Some(now)
           /\ Ends(s, {"unlock"}, "complete", "unlock.rejected")
              => security'.error \in {ReadFailMsg, WriteFailMsg}
           /\ (thunks[s].pc = "complete" /\ thunks[s].err = NullStr
                 /\ StepOf(s))
              => /\ last'.op = "unlock.fulfilled"
                 /\ ~security'.locked
                 /\ security'.lastUnlockedAt = thunks[s].t]_vars

\* a round-trip unlock has unlocked a locked wallet
RoundTripWitness ==
    /\ last.op = "unlock.fulfilled"
    /\ last.rt /\ last.lockedBefore
    /\ security.passwordSet /\ ~security.locked
    /\ security.lastUnlockedAt # None

\* C8: unlock with a password whose digest differs from the hash it read is
\* rejected with "Incorrect password. Please try again.", writes nothing to
\* the store and changes only the error field of the security state
WrongPasswordChangesOnlyError ==
    [][\A s \in AllSlots :
        /\ (thunks[s].kind = "unlock" /\ thunks[s].pc = "readHash"
              /\ StepOf(s))
           => store' = store /\ security' = security
        /\ (/\ thunks[s].kind = "unlock" /\ thunks[s].pc = "check"
            /\ thunks[s].got[1] # None
            /\ thunks[s].got[1][1] # Digest(thunks[s].arg[1])
            /\ StepOf(s))
           => /\ thunks'[s] = Idle
              /\ last'.op = "unlock.rejected"
              /\ security' = [security EXCEPT
                    !.error = "Incorrect password. Please try again."]
              /\ store' = store]_vars

\* a wrong password was rejected and the wallet is still Locked
WrongPasswordWitness ==
    /\ last.op = "unlock.rejected"
    /\ security.error = IncorrectPasswordMsg
    /\ Locked

\* C9: unlock when no password hash is in the store is rejected, whatever
\* the password, with the "no password set" message, which is not the
\* "incorrect password" message; store and lock fields are unchanged
NoPasswordRejected ==
    [][\A s \in AllSlots :
        (/\ thunks[s].kind = "unlock" /\ thunks[s].pc = "check"
         /\ thunks[s].got[1] = None
         /\ StepOf(s))
        => /\ thunks'[s] = Idle
           /\ last'.op = "unlock.rejected"
           /\ security'.error = "No password set. Please create one first."
           /\ security'.error # IncorrectPasswordMsg
           /\ security' = [security EXCEPT !.error = security'.error]
           /\ store' = store]_vars

NoPasswordWitness ==
    /\ last.op = "unlock.rejected"
    /\ security.error = NoPasswordMsg
    /\ store["passwordHash"] = None

\* C10: a successful updateAutoLockDuration(minutes) stores the duration,
\* and its reducer recomputes locked from the unchanged lastUnlockedAt and
\* the new duration: a duration not greater than the time elapsed since the
\* last unlock locks the wallet; lastUnlockedAt is not modified
UpdateAutoLockRecomputes ==
    [][\A s \in AllSlots :
        /\ (/\ thunks[s].kind = "updateAutoLock" /\ thunks[s].pc = "write"
            /\ StepOf(s) /\ thunks'[s].err = NullStr)
           => store' = [store EXCEPT !["autoLockMinutes"] =
                            Some(ToDecimal(thunks[s].arg[1]))]
        /\ Ends(s, {"updateAutoLock"}, "complete", "updateAutoLock.fulfilled")
           => LET minutes == thunks[s].arg[1]
                  unlockedAt == security.lastUnlockedAt
              IN  /\ security'.autoLockMinutes = minutes
                  /\ security'.lastUnlockedAt = unlockedAt
                  /\ security'.passwordSet = security.passwordSet
                  /\ store' = store
                  /\ security'.locked =
                       (/\ security.passwordSet
                        /\ \/ unlockedAt = None
                           \/ now' - unlockedAt[1] >= minutes * 60000)
                  /\ (/\ security.passwordSet /\ unlockedAt # None
                      /\ minutes * 60000 <= now' - unlockedAt[1])
                     => security'.locked]_vars

\* a shorter duration has locked a wallet that was unlocked
UpdateAutoLockWitness ==
    /\ last.op = "updateAutoLock.fulfilled"
    /\ ~last.lockedBefore
    /\ Locked
    /\ security.lastUnlockedAt # None
    /\ store["autoLockMinutes"] = Some(<<"1">>)

\* C11: after a fulfilled deleteWalletData nothing of the wallet is left in
\* the store, neither a credential key nor the password hash, the auto-lock
\* minutes or the last-unlocked timestamp, so that an initialize() that
\* follows reads no hash and reports passwordSet = FALSE
DeleteClearsBothRecords ==
    last.op = "delete.fulfilled" => \A k \in StoreKeys : store[k] = None

\* the four lock fields of the security state
LockFields(state) ==
    <<state.passwordSet, state.locked, state.autoLockMinutes,
      state.lastUnlockedAt>>

SecurityThunks == {"setPassword", "unlock", "updateAutoLock"}

\* C12: passwordSet, locked, autoLockMinutes and lastUnlockedAt are changed
\* by setPassword, unlock and updateAutoLockDuration only in the fulfilled
\* reducer, which runs only after the store has confirmed the write; a
\* failed write ends the thunk with the rejected action, which carries the
\* error and leaves the four fields as they were
WriteFailureKeepsMemory ==
    [][/\ last'.op \in {"setPassword.pending", "unlock.pending",
                        "updateAutoLock.pending"}
          => LockFields(security') = LockFields(security)
       /\ \A s \in AllSlots :
            LET th == thunks[s] IN
            (th.kind \in SecurityThunks /\ thunks'[s] # th
                /\ last'.op # "restart")
            => /\ last'.op # th.kind \o ".fulfilled"
                    => LockFields(security') = LockFields(security)
               /\ (th.pc \in {"writeHash", "writeTs", "write"}
                      /\ thunks'[s].err = WriteFailMsg)
                    => /\ thunks'[s].pc = "complete"
                       /\ store' = store
               /\ (th.pc = "complete" /\ th.err # NullStr)
                    => /\ last'.op = th.kind \o ".rejected"
                       /\ security'.error = th.err
               /\ last'.op = th.kind \o ".fulfilled"
                    => /\ th.err = NullStr
                       /\ th.kind = "updateAutoLock"
                            => store["autoLockMinutes"]
                                  = Some(ToDecimal(security'.autoLockMinutes))
                       /\ th.kind # "updateAutoLock"
                            => store["lastUnlockedAt"]
                                  = Some(ToDecimal(security'.lastUnlockedAt[1]))]_vars

\* setPassword stored the hash, the write of the timestamp failed, and the
\* state in memory still has no password
WriteFailureWitness ==
    /\ last.op = "setPassword.rejected"
    /\ security.error = WriteFailMsg
    /\ store["passwordHash"] # None
    /\ ~security.passwordSet

\* C13: the stored lastUnlockedAt changes only in the timestamp write of a
\* setPassword, or of an unlock whose password matched, that then succeeds,
\* and the value written is the current time; no step of initialize,
\* refreshLockState, forceLock, updateAutoLockDuration or of an unlock that
\* fails changes it
OnlyUnlockResetsCountdown ==
    [][/\ store'["lastUnlockedAt"] # store["lastUnlockedAt"]
          => /\ store'["lastUnlockedAt"] = Some(ToDecimal(now))
             /\ \E s \in AllSlots :
                  /\ thunks[s].kind \in {"setPassword", "unlock"}
                  /\ thunks[s].pc = "writeTs"
                  /\ thunks'[s].pc = "complete"
                  /\ thunks'[s].err = NullStr
                  /\ thunks[s].kind = "unlock"
                       => thunks[s].got[1] = Some(Digest(thunks[s].arg[1]))
       /\ last'.op \in {"initialize.fulfilled", "refresh.fulfilled",
                        "forceLock", "updateAutoLock.fulfilled",
                        "writeAutoLock", "unlock.rejected"}
          => store'["lastUnlockedAt"] = store["lastUnlockedAt"]]_vars

\* an unlock, later than the setPassword, has moved the stored timestamp
OnlyUnlockWitness ==
    /\ last.op = "unlock.fulfilled"
    /\ now > Epoch
    /\ store["lastUnlockedAt"] = Some(ToDecimal(now))

\* C14: a step that advances the clock leaves the security state as it
\* is, and locked turns from FALSE to TRUE only in the fulfilled reducer of
\* initialize, refreshLockState or updateAutoLockDuration, or in forceLock
TimeAloneNeverLocks ==
    [][/\ now' # now => security' = security
       /\ (~security.locked /\ security'.locked)
          => last'.op \in {"initialize.fulfilled", "refresh.fulfilled",
                           "updateAutoLock.fulfilled", "forceLock"}]_vars

\* the auto-lock duration has elapsed and the wallet is still Unlocked
ElapsedButUnlockedWitness ==
    /\ last.op = "tick"
    /\ security.passwordSet /\ ~security.locked
    /\ security.lastUnlockedAt # None
    /\ now - security.lastUnlockedAt[1]
          >= security.autoLockMinutes * MsPerMinute

\* C15: a fetchAccountBalance whose API call threw, or answered without
\* success and data, leaves balance and tokens at their last known values
FailedFetchKeepsBalance ==
    [][(last'.op = "fetchBalance.fulfilled" /\ last'.failed)
       => /\ wallet'.balance = wallet.balance
          /\ wallet'.tokens = wallet.tokens]_vars

\* C16: no step of a wallet flow (load, create, the imports, balance fetch,
\* clearWallet, token creation, transfer, a delete that is pending or
\* rejected), whether its API or store calls succeed or fail, changes the
\* security state or a stored security key; only forceLock and a fulfilled
\* delete are left out
RemoteCallsKeepSecurity ==
    [][last'.op \notin {"forceLock", "delete.fulfilled"}
       => /\ security' = security
          /\ \A k \in SecurityKeys : store'[k] = store[k]]_vars

\* a wallet was created while the wallet was Locked, and it still is
RemoteCallsWitness ==
    /\ last.op = "create.fulfilled"
    /\ Locked
    /\ store["passwordHash"] # None
    /\ store[SEED_KEY] # None

\* C17: every step of a flow that saves a record leaves the stored value
\* of each field that is absent from (or empty in) the record as it was,
\* and a key that changes takes the value of its field in the record
SaveWritesOnlyPresentFields ==
    [][\A s \in AllSlots :
        (thunks[s].kind \in WalletKinds /\ thunks[s].pc = "save"
            /\ thunks'[s] # thunks[s])
        => LET record == thunks[s].got[2] IN
           /\ \A k \in SecurityKeys : store'[k] = store[k]
           /\ \A i \in 1..Len(WalletFields) :
                LET f == WalletFields[i] IN
                /\ (record[f] = None \/ record[f] = Some(<<>>))
                     => store'[KeyOf(f)] = store[KeyOf(f)]
                /\ store'[KeyOf(f)] # store[KeyOf(f)]
                     => store'[KeyOf(f)] = record[f]]_vars

\* an import from a seed was saved and the mnemonic stored by an earlier
\* createWallet is still in the store
SaveMergeWitness ==
    /\ last.op = "importSeed.fulfilled"
    /\ store[SEED_KEY] = Some(SeedInput)
    /\ store[MNEMONIC_KEY] # None

\* C18: when none of its reads throws, loadWalletFromStorage is fulfilled
\* with null exactly when no address is stored, whatever else is stored,
\* and otherwise with a record that has every stored field; hasWallet on
\* the same store is TRUE exactly when the payload is a record
LoadFollowsAddress ==
    [][\A s \in AllSlots :
        (Ends(s, {"load"}, "complete", "load.fulfilled")
            /\ ~thunks[s].failed)
        => LET payload == thunks[s].got[1] IN
           /\ wallet'.walletData = payload
           /\ payload = None <=> store[ADDRESS_KEY] = None
           /\ payload # None
                => \A i \in 1..Len(WalletFields) :
                      payload[1][WalletFields[i]] = store[KeyOf(WalletFields[i])]
           /\ hasWallet(getWalletField(store, "address", TRUE))
                <=> payload # None]_vars

\* a load reported "no wallet" while a seed was still stored
LoadNoWalletWitness ==
    /\ last.op = "load.fulfilled" /\ ~last.failed
    /\ wallet.walletData = None
    /\ store[ADDRESS_KEY] = None
    /\ store[SEED_KEY] # None

\* C19: when no flow is in progress, a seed, mnemonic, private key or
\* public key is stored only if an address is stored
SecretsOnlyWithAddress ==
    (store[ADDRESS_KEY] = None /\ \A s \in AllSlots : thunks[s] = Idle)
    => \A k \in VaultKeys : store[k] = None

\* C20: a store call that throws during a save, a delete or a load ends the
\* flow with a rejected action that carries the failure message; a load
\* one of whose reads threw is never fulfilled
StorageErrorsSurface ==
    [][\A s \in AllSlots :
        /\ (thunks[s].kind \in {"create", "importSeed", "importMnemonic"}
               /\ thunks[s].pc = "save" /\ thunks'[s].failed)
            => thunks'[s].pc = "complete" /\ thunks'[s].err # NullStr
        /\ (thunks[s].kind \in {"create", "importSeed", "importMnemonic"}
               /\ thunks[s].pc = "complete" /\ thunks[s].failed
               /\ thunks'[s] # thunks[s])
            => /\ last'.op = thunks[s].kind \o ".rejected"
               /\ wallet'.error = thunks[s].err
        /\ (thunks[s].kind = "delete" /\ thunks[s].pc = "complete"
               /\ thunks[s].err # NullStr /\ thunks'[s] # thunks[s])
            => /\ last'.op = "delete.rejected"
               /\ wallet'.error = DeleteFailMsg
        /\ Ends(s, {"load"}, "complete", "load.fulfilled")
            => ~thunks[s].failed]_vars

\* C21: saveWallet writes the fields it saves one at a time in the order
\* address, seed, publicKey, mnemonic, privateKey; a write that throws
\* changes nothing in the store and ends the save, every field written
\* before it keeps the value of the record, nothing is written afterwards
\* and the flow ends with its failure outcome
SaveFailureKeepsEarlierWrites ==
    [][\A s \in AllSlots :
        LET th == thunks[s]
            record == th.got[2]
        IN  (th.kind \in WalletKinds /\ thunks'[s] # th)
            => /\ (th.pc = "save" /\ ~thunks'[s].failed)
                    => /\ store' = [store EXCEPT ![KeyOf(WalletFields[th.i])] =
                                        record[WalletFields[th.i]]]
                       /\ thunks'[s].i > th.i
               /\ (th.pc = "save" /\ thunks'[s].failed)
                    => /\ store' = store
                       /\ thunks'[s].pc = "complete"
                       /\ thunks'[s].i = th.i
                       /\ thunks'[s].err # NullStr
               /\ (th.pc = "complete" /\ th.failed /\ Len(th.got) = 2)
                    => /\ store' = store
                       /\ \A j \in 1..(th.i - 1) :
                            TruthyStr(record[WalletFields[j]])
                            => store[KeyOf(WalletFields[j])]
                                  = record[WalletFields[j]]
                       /\ last'.op \in {th.kind \o ".rejected",
                                         "importPrivateKey.failed"}
                       /\ thunks'[s] = Idle]_vars

\* createWallet has stored address and seed, and the write of the public
\* key has just thrown
SaveFailureWitness ==
    /\ last.op = "saveField"
    /\ \E s \in AllSlots :
         /\ thunks[s].kind = "create" /\ thunks[s].pc = "complete"
         /\ thunks[s].failed /\ thunks[s].i = 3
         /\ store[SEED_KEY] = thunks[s].got[2].seed
         /\ store[PUBLIC_KEY_KEY] = None

\* C22: no step of deleteWalletData changes a stored security key, and only
\* its fulfilled reducer changes the security state in memory; a delete
\* that fails is reported by the rejected action with its message, with
\* the password hash, the auto-lock minutes and the last-unlocked timestamp
\* as they were stored before and the security state in memory unchanged
DeleteFailureKeepsSecurityRecord ==
    [][/\ last'.op = "delete.pending"
          => /\ security' = security
             /\ \A k \in SecurityKeys : store'[k] = store[k]
       /\ \A s \in AllSlots :
            LET th == thunks[s] IN
            (th.kind = "delete" /\ thunks'[s] # th /\ last'.op # "restart")
            => /\ \A k \in SecurityKeys : store'[k] = store[k]
               /\ last'.op # "delete.fulfilled" => security' = security
               /\ (th.pc = "complete" /\ th.err # NullStr)
                    => /\ last'.op = "delete.rejected"
                       /\ wallet'.error = th.err
                       /\ th.err = DeleteFailMsg]_vars

\* a delete was rejected after it had removed the address; the Security
\* Record is whole and the wallet is still Locked
DeleteFailureWitness ==
    /\ last.op = "delete.rejected"
    /\ store[ADDRESS_KEY] = None
    /\ store["passwordHash"] # None
    /\ store["lastUnlockedAt"] # None
    /\ Locked

\* the actions that end an engine operation
EngineOutcomes ==
    {k \o o : k \in {"initialize", "refresh", "setPassword", "unlock",
                      "updateAutoLock"},
              o \in {".fulfilled", ".rejected"}}

\* C23: every engine operation that was dispatched ends, whether its store
\* calls succeed or throw, with its fulfilled or its rejected action, and
\* the initializing flag never stays up forever
EngineOperationsComplete ==
    /\ \A s \in AllSlots :
         (thunks[s] # Idle)
            ~> (thunks[s] = Idle /\ last.op \in EngineOutcomes)
    /\ security.initializing ~> ~security.initializing

\* an initialize whose reads threw was rejected and the flag is down
EngineOperationsWitness ==
    /\ last.op = "initialize.rejected"
    /\ security.error = ReadFailMsg
    /\ ~security.initializing

\* the store with the address of the Credential Record set to a
withAddress(st, a) == [st EXCEPT ![ADDRESS_KEY] = a]

\* C24: an unlock with a password whose digest is not the stored hash reads
\* the same hash, rejects with the same message and leaves the same
\* security state whether or not an address is stored
WrongPasswordIgnoresAddress ==
    [][\A s \in AllSlots :
         LET th == thunks[s]
             wrong == getWalletPasswordHash(store) # Some(Digest(th.arg[1]))
             stored == withAddress(store, StoreWithWallet[ADDRESS_KEY])
             absent == withAddress(store, None)
         IN  (th.kind = "unlock" /\ thunks'[s] # th /\ last'.op # "restart"
                /\ wrong) =>
               /\ store' = store /\ wallet' = wallet
               /\ (th.pc = "readHash" /\ thunks'[s].err = NullStr) =>
                    /\ thunks'[s].got = <<getWalletPasswordHash(stored)>>
                    /\ thunks'[s].got = <<getWalletPasswordHash(absent)>>
                    /\ security' = security
               /\ th.pc = "check" =>
                    /\ th.got = <<getWalletPasswordHash(stored)>>
                    /\ th.got = <<getWalletPasswordHash(absent)>>
                    /\ last'.op = "unlock.rejected"
                    /\ security' = unlockRejected(security,
                                       checkPassword(th.arg[1], th.got[1]))
                    /\ security'.locked = security.locked]_vars

\* a wrong password was rejected as incorrect while no address is stored
WrongPasswordNoAddressWitness ==
    /\ last.op = "unlock.rejected"
    /\ security.error = IncorrectPasswordMsg
    /\ store[ADDRESS_KEY] = None
    /\ IsSome(store["passwordHash"])

\* the payload both thunks compute when their reads of st resolve at t
payloadOf(st, t) ==
    LockPayload(getWalletPasswordHash(st), getAutoLockMinutes(st),
                getLastUnlockedTimestamp(st), t)

\* C26: from the same storage contents at the same time initialize and
\* refreshLockState leave the same passwordSet, autoLockMinutes,
\* lastUnlockedAt and locked; only initializing and error may differ
RefreshEquivalentToInitialize ==
    [][/\ LockFields(initializeFulfilled(initializePending(security),
                                         payloadOf(store, now)))
          = LockFields(refreshFulfilled(security, payloadOf(store, now)))
       /\ \A s \in AllSlots :
            LET th == thunks[s]
                payload == LockPayload(th.got[1], th.got[2], th.got[3], now)
            IN  (th.kind \in {"initialize", "refresh"} /\ th.pc = "complete"
                   /\ th.err = NullStr /\ thunks'[s] = Idle
                   /\ last'.op # "restart") =>
                  /\ LockFields(security')
                       = LockFields(initializeFulfilled(security, payload))
                  /\ LockFields(security')
                       = LockFields(refreshFulfilled(security, payload))
                  /\ security'.error = security.error
                  /\ security'.initializing =
                       (th.kind = "refresh" /\ security.initializing)]_vars

\* a refresh reduced a locked state with a duration other than the default
RefreshEquivalentWitness ==
    /\ last.op = "refresh.fulfilled"
    /\ security.passwordSet /\ security.locked
    /\ security.autoLockMinutes # DEFAULT_AUTO_LOCK_MINUTES
    /\ LockFields(security) = LockFields(payloadOf(store, now))

\* the fulfilled actions of the recorded history, in the order reduced
Completions == SelectSeq(last.hist, LAMBDA e : e.op # "forceLock")

\* the state is the one the second of two thunks, whose fulfilled actions
\* are a and b and which were in flight together, has just left
BothCompleted(a, b) ==
    /\ last.n = 2 /\ Len(Completions) = 2
    /\ {Completions[1].op, Completions[2].op} = {a, b}
    /\ Completions[1].overlap
    /\ last.op = Completions[2].op
    /\ \A s \in AllSlots : thunks[s] = Idle

\* the entry of the history left by the fulfilled action a
Completed(a) == Completions[CHOOSE i \in 1..2 : Completions[i].op = a]

\* C25: when an unlock with the right password and an
\* updateAutoLockDuration(m) were in flight together and both are fulfilled,
\* the store holds the timestamp of the unlock and m, memory holds both,
\* and locked is what isLocked gives for them at the Date.now() read by the
\* operation reduced last (memory knows that a password is set, that is,
\* the engine was initialized since the last restart)
UnlockAndDurationAgree ==
    (/\ BothCompleted("unlock.fulfilled", "updateAutoLock.fulfilled")
     /\ security.passwordSet) =>
      LET t == Completed("unlock.fulfilled").t[1]
          m == Completed("updateAutoLock.fulfilled").arg[1]
      IN  /\ getLastUnlockedTimestamp(store) = Some(t)
          /\ getAutoLockMinutes(store) = Some(m)
          /\ security.lastUnlockedAt = Some(t)
          /\ security.autoLockMinutes = m
          /\ security.locked =
               isLocked(TRUE, Some(t), m,
                        IF last.op = "unlock.fulfilled" THEN t ELSE now)

\* the unlock was reduced first and a minute later the new duration of one
\* minute, written before the unlock wrote its timestamp, locks the wallet
UnlockAndDurationWitness ==
    /\ BothCompleted("unlock.fulfilled", "updateAutoLock.fulfilled")
    /\ last.op = "updateAutoLock.fulfilled"
    /\ security.locked
    /\ security.autoLockMinutes = 1
    /\ store = setAutoLockMinutes(SecuredStore, 1)

\* a manual lock was taken with a password set and no unlock has been
\* fulfilled since
ManuallyLocked ==
    \E i \in 1..Len(last.hist) :
       /\ last.hist[i].op = "forceLock"
       /\ \A j \in (i + 1)..Len(last.hist) :
            last.hist[j].op # "unlock.fulfilled"

\* C27: after forceLock with a password set, every refreshLockState and
\* every initialize, also after a restart, reports locked until an unlock
\* is fulfilled
ManualLockDurable ==
    (/\ ManuallyLocked
     /\ last.op \in {"refresh.fulfilled", "initialize.fulfilled"})
       => security.locked

\* C28: when a refreshLockState and an unlock with the right password were
\* in flight together and both are fulfilled, the wallet is unlocked and
\* the lastUnlockedAt in memory is the stored one
StaleRefreshNeverOverwrites ==
    BothCompleted("refresh.fulfilled", "unlock.fulfilled") =>
      /\ ~security.locked
      /\ security.lastUnlockedAt = getLastUnlockedTimestamp(store)

\* C29: when the string typed into the unlock prompt is the string the
\* set-password screen accepted and stored, the check of the unlock finds
\* the digests equal
AcceptedPasswordUnlocks ==
    [][\A s \in AllSlots :
         (/\ thunks[s].kind = "unlock" /\ thunks[s].pc = "check"
          /\ thunks[s].rt /\ thunks'[s] # thunks[s])
            => last'.op = "unlock.matched"]_vars

\* C30: a showToast made while a toast is on screen leaves that toast on
\* screen and appends the new one to the queue, and the toasts are mounted
\* in the order of their showToast calls, none of them twice
ToastsFifoOnce ==
    [][/\ (toasts.currentToast # None /\ toasts'.nextId # toasts.nextId) =>
            /\ toasts'.currentToast = toasts.currentToast
            /\ toasts'.toastQueue = Append(toasts.toastQueue, toasts.nextId)
       /\ \A i, j \in 1..Len(toasts'.displayed) :
            i < j => toasts'.displayed[i] < toasts'.displayed[j]]_vars

====
